---- MODULE Spec2Model ----
(***************************************************************************)
(* Model of monitor.py: a site monitor that fetches the configured pages,  *)
(* extracts event records (or a page-hash record), diffs them against      *)
(* last_events.json and writes email_content.txt.                          *)
(*                                                                         *)
(* Python values are modelled as follows.                                  *)
(*   str           a TLA+ string                                           *)
(*   dict of str   a record whose DOMAIN is the set of keys present        *)
(*   list          a sequence                                              *)
(*   ordered dict  a sequence of [name, events] items, unique names, in    *)
(*                 insertion order (all_new_events, current_all_events,    *)
(*                 the content of last_events.json)                        *)
(*   parsed page   [src, text, elems]: src is the html string's length     *)
(*                 class ("" for the empty string), text is                *)
(*                 soup.get_text(), elems the elements in document order;  *)
(*                 each element carries the CSS selectors it matches       *)
(*                 (sels), its tag and class, and for each selector that   *)
(*                 matches a descendant the first such descendant (kids).  *)
(***************************************************************************)
EXTENDS Integers, Sequences, FiniteSets, TLC

VARIABLES
    config,              \* sites_config.json: [exists, sites]
    file,                \* last_events.json: [exists, data]
    report,              \* email_content.txt: [exists, body]
    stdout,              \* what the current run printed (the lines that matter)
    pc,                  \* position of main: "idle", "loop", "result", "done", "crashed"
    idx,                 \* index into sites of the next site of the for loop
    sites,               \* main's local: the enabled sites
    last_events,         \* main's local: the loaded snapshot
    current_all_events,  \* main's local
    all_new_events,      \* main's local
    run,                 \* number of runs of main started so far
    writes,              \* history: the files this run wrote, in order
    fetched,             \* history: what fetch_page_content returned in this run, per site
    prev_fetched,        \* history: the same for the previous run
    tracked,             \* history: per site, the records reported as new in an earlier
                         \* run and present in every successful fetch since
    call,                \* a direct call of one of the pure functions: its arguments
    result               \* and its result

vars == <<config, file, report, stdout, pc, idx, sites, last_events,
          current_all_events, all_new_events, run, writes, fetched, prev_fetched,
          tracked, call, result>>

-----------------------------------------------------------------------------
(* Bounds of the model and constants of the program.                       *)

MaxRuns == 3

ContainerCap == 20
DescriptionCap == 300
PreviewCap == 500
HashLen == 16
RenderCap == 200

-----------------------------------------------------------------------------
(* Strings.                                                                *)

Min(a, b) == IF a < b THEN a ELSE b

RECURSIVE Rep(_, _)
Rep(c, n) ==
    IF n = 0 THEN ""
    ELSE IF n % 2 = 0 THEN LET h == Rep(c, n \div 2) IN h \o h
    ELSE c \o Rep(c, n - 1)

\* s[:n]
Take(s, n) == SubSeq(s, 1, Min(Len(s), n))

\* str.strip(), for the blank characters the model's pages use
RECURSIVE Strip(_)
Strip(s) ==
    IF Len(s) = 0 THEN s
    ELSE IF SubSeq(s, 1, 1) \in {" ", "\n"} THEN Strip(SubSeq(s, 2, Len(s)))
    ELSE IF SubSeq(s, Len(s), Len(s)) \in {" ", "\n"} THEN Strip(SubSeq(s, 1, Len(s) - 1))
    ELSE s

\* s.replace('\n', ' ')
RECURSIVE ReplaceNewlines(_)
ReplaceNewlines(s) ==
    IF Len(s) = 0 THEN s
    ELSE IF Len(s) = 1 THEN (IF s = "\n" THEN " " ELSE s)
    ELSE LET h == Len(s) \div 2
         IN ReplaceNewlines(SubSeq(s, 1, h)) \o ReplaceNewlines(SubSeq(s, h + 1, Len(s)))

Upper == "ABCDEFGHIJKLMNOPQRSTUVWXYZ"
Lowercase == "abcdefghijklmnopqrstuvwxyz"

LowerChar(c) ==
    IF \E i \in 1..26 : SubSeq(Upper, i, i) = c
    THEN LET i == CHOOSE j \in 1..26 : SubSeq(Upper, j, j) = c IN SubSeq(Lowercase, i, i)
    ELSE c

\* str.lower()
RECURSIVE Lower(_)
Lower(s) ==
    IF Len(s) = 0 THEN s
    ELSE LowerChar(SubSeq(s, 1, 1)) \o Lower(SubSeq(s, 2, Len(s)))

\* word in s
Contains(s, word) ==
    \E i \in 1..(Len(s) - Len(word) + 1) : SubSeq(s, i, i + Len(word) - 1) = word

\* the text of a page of 21 one-line entries "e", "ee", ...
RECURSIVE ManyTextTo(_)
ManyTextTo(n) == IF n = 0 THEN "" ELSE ManyTextTo(n - 1) \o Rep("e", n) \o "\n"
ManyText == ManyTextTo(ContainerCap + 1)

\* hashlib.md5(text.encode()).hexdigest(), tabulated for the texts of the model's pages
Md5Hex(text) ==
    CASE text = "" -> "d41d8cd98f00b204e9800998ecf8427e"
      [] text = "hello world" -> "5eb63bbbe01eeed093cb22bb8f5acdc3"
      [] text = "hello world!" -> "fc3ff98e8c6a0d3087d515c0473f8677"
      [] text = "line one\nline two" -> "a8e259530e140091d1fe5d0e1538a934"
      [] text = Rep("x", 600) -> "2bfac1bb871236a26c9bbc8389d00b83"
      [] text = Rep("x", 498) \o "\nyz" -> "2a0404d6d135e1df037ad88f20b84577"
      [] text = "Concert\nTalk\n" -> "350227898a297a7569c4c827d8357826"
      [] text = "Concert\nTalk\nGala\n" -> "5b031c1a063539df06a4eab99ca625ae"
      [] text = "Talk\nConcert\n" -> "a254e6cc43d0e5b6effed3cd79c636ee"
      [] text = "\n  \n" -> "4b687e869ecbcb0ceb1d98ace807d911"
      [] text = ManyText -> "9073400f51a08fe365a7224c95f3dc3f"

\* urljoin(url, href) for the two shapes of href the model's pages use: an absolute
\* http URL is kept, a path starting with "/" replaces the path of url. The model's
\* site URLs have no path, so the second case is url followed by href.
urljoin(url, href) ==
    IF Len(href) >= 7 /\ SubSeq(href, 1, 7) = "http://" THEN href
    ELSE url \o href

-----------------------------------------------------------------------------
(* Python dicts and lists.                                                 *)

EmptyDict == <<>>

Has(d, k) == k \in DOMAIN d

\* d.get(k, default)
Get(d, k, default) == IF Has(d, k) THEN d[k] ELSE default

\* d[k] = v on a dict of strings
SetKey(d, k, v) == [x \in DOMAIN d \cup {k} |-> IF x = k THEN v ELSE d[x]]

\* Ordered dicts: name in d, d.get(name, default), d[name] = events
Names(d) == {d[i].name : i \in 1..Len(d)}

OdGet(d, name, default) ==
    IF name \in Names(d)
    THEN d[CHOOSE i \in 1..Len(d) : d[i].name = name].events
    ELSE default

OdSet(d, name, events) ==
    IF name \in Names(d)
    THEN [i \in 1..Len(d) |-> IF d[i].name = name THEN [name |-> name, events |-> events] ELSE d[i]]
    ELSE Append(d, [name |-> name, events |-> events])

Range(seq) == {seq[i] : i \in 1..Len(seq)}

RECURSIVE SumLen(_)
SumLen(d) == IF Len(d) = 0 THEN 0 ELSE Len(Head(d).events) + SumLen(Tail(d))

\* The lists that hold exactly the elements of S, each once, in any order
Orderings(S) ==
    {q \in [1..Cardinality(S) -> S] : \A i, j \in 1..Cardinality(S) : i # j => q[i] # q[j]}

-----------------------------------------------------------------------------
(* extract_events_generic.                                                 *)

\* soup.select(selector): the elements matching selector, in document order
Select(page, selector) == SelectSeq(page.elems, LAMBDA e : selector \in e.sels)

\* lines 37-39: the matches of every configured container selector, concatenated
RECURSIVE ConfiguredContainers(_, _)
ConfiguredContainers(page, selectorList) ==
    IF Len(selectorList) = 0 THEN <<>>
    ELSE Select(page, Head(selectorList)) \o ConfiguredContainers(page, Tail(selectorList))

GenericWords == {"event", "post", "item", "entry"}

\* the class_ predicate of lines 44-45; cls is "" for an element without class
ClassMatches(cls) == cls # "" /\ \E word \in GenericWords : Contains(Lower(cls), word)

\* lines 42-45
GenericContainers(page) ==
    SelectSeq(page.elems, LAMBDA e : e.tag \in {"article", "div"} /\ ClassMatches(e.cls))

Containers(page, selectors) ==
    LET configured == ConfiguredContainers(page, Get(selectors, "container", <<>>))
    IN  IF Len(configured) = 0 THEN GenericContainers(page) ELSE configured

\* container.select_one(selector): [found, elem]
SelectOne(container, selector) ==
    IF selector \in DOMAIN container.kids
    THEN [found |-> TRUE, elem |-> container.kids[selector]]
    ELSE [found |-> FALSE, elem |-> [text |-> "", href |-> ""]]

\* the loops of lines 51-69: the first selector of the list that matches decides
RECURSIVE FirstText(_, _)
FirstText(container, selectorList) ==
    IF Len(selectorList) = 0 THEN [found |-> FALSE, text |-> ""]
    ELSE LET m == SelectOne(container, Head(selectorList))
         IN  IF m.found THEN [found |-> TRUE, text |-> Strip(m.elem.text)]
             ELSE FirstText(container, Tail(selectorList))

\* the loop of lines 72-76: the first selector that matches an element with an href
RECURSIVE FirstLink(_, _, _)
FirstLink(container, url, selectorList) ==
    IF Len(selectorList) = 0 THEN [found |-> FALSE, text |-> ""]
    ELSE LET m == SelectOne(container, Head(selectorList))
         IN  IF m.found /\ m.elem.href # ""
             THEN [found |-> TRUE, text |-> urljoin(url, m.elem.href)]
             ELSE FirstLink(container, url, Tail(selectorList))

Field(k, m) == IF m.found THEN k :> m.text ELSE EmptyDict

TruncateDescription(m) == [found |-> m.found, text |-> Take(m.text, DescriptionCap)]

\* lines 48-76: the event of one container
ExtractEvent(container, url, selectors) ==
    Field("title", FirstText(container, Get(selectors, "title", <<>>)))
    @@ Field("date", FirstText(container, Get(selectors, "date", <<>>)))
    @@ Field("description",
             TruncateDescription(FirstText(container, Get(selectors, "description", <<>>))))
    @@ Field("link", FirstLink(container, url, Get(selectors, "link", <<>>)))

\* event.get('title') is truthy
HasTitle(event) == Has(event, "title") /\ event.title # ""

\* lines 84-86
HashRecord(page) ==
    [page_hash |-> Take(Md5Hex(page.text), HashLen),
     content_preview |-> ReplaceNewlines(Take(page.text, PreviewCap))]

\* `not html`: html is the empty string
Falsy(html) == html.src = ""

extract_events_generic(html, url, selectors) ==
    IF Falsy(html) THEN <<>>
    ELSE LET containers == Take(Containers(html, selectors), ContainerCap)
             all == [i \in 1..Len(containers) |-> ExtractEvent(containers[i], url, selectors)]
             events == SelectSeq(all, HasTitle)
         IN  IF Len(events) = 0 THEN <<HashRecord(html)>> ELSE events

-----------------------------------------------------------------------------
(* fetch_site_events, load_last_events, save_events, find_new_events.      *)

\* lines 94-105 after the page arrived: ok is FALSE where the code returns None.
\* fetch is what fetch_page_content returned: [ok, html], ok FALSE for None.
fetch_site_events(site_config, fetch) ==
    IF ~fetch.ok \/ Falsy(fetch.html) THEN [ok |-> FALSE, events |-> <<>>]
    ELSE LET events == extract_events_generic(fetch.html, site_config.url,
                                              Get(site_config, "selectors", EmptyDict))
         IN  [ok |-> TRUE,
              events |-> [i \in 1..Len(events) |->
                            SetKey(SetKey(events[i], "source", site_config.name),
                                   "source_url", site_config.url)]]

\* faulty variant: the snapshot is looked for under another file name and never found
load_last_events_other_file(f) == <<>>

load_last_events(f) == IF f.exists THEN f.data ELSE <<>>

save_events(all_events) == [exists |-> TRUE, data |-> all_events]

\* the keys of the model's records, in the order sort_keys=True gives
SortedKeys ==
    <<"content_preview", "date", "description", "link", "page_hash", "source",
      "source_url", "title">>

\* faulty variant: records are compared by their title alone
DumpsTitleOnly(e) == IF "title" \in DOMAIN e THEN << <<"title", e.title>> >> ELSE <<>>

\* json.dumps(e, sort_keys=True): the key/value pairs of e in key order
Dumps(e) ==
    LET keys == SelectSeq(SortedKeys, LAMBDA k : k \in DOMAIN e)
    IN  [i \in 1..Len(keys) |-> <<keys[i], e[keys[i]]>>]

\* json.loads
Loads(s) == [k \in {s[i][1] : i \in 1..Len(s)} |->
               s[CHOOSE i \in 1..Len(s) : s[i][1] = k][2]]

\* faulty variant: a site without stored events is compared with its current events
NewSetDefaultCurrent(current_events, last, site_name) ==
    LET last_site_events == OdGet(last, site_name, current_events)
        last_set == {Dumps(e) : e \in Range(last_site_events)}
        current_set == {Dumps(e) : e \in Range(current_events)}
    IN  current_set \ last_set

\* lines 121-127
NewSet(current_events, last, site_name) ==
    LET last_site_events == OdGet(last, site_name, <<>>)
        last_set == {Dumps(e) : e \in Range(last_site_events)}
        current_set == {Dumps(e) : e \in Range(current_events)}
    IN  current_set \ last_set

\* The lists find_new_events may return: line 128 iterates a set, whose order is
\* not determined by its elements.
find_new_events(current_events, last, site_name) ==
    LET new_set == NewSet(current_events, last, site_name)
        lists == Orderings(new_set)
    IN  {[i \in 1..Len(q) |-> Loads(q[i])] : q \in lists}

-----------------------------------------------------------------------------
(* format_email_body. The body is modelled as the sequence of its parts,   *)
(* one per f-string appended; the timestamp's value is left out.           *)

\* faulty variant: the enabled flag is ignored
EnabledAlways(site) == TRUE

Enabled(site) == Get(site, "enabled", TRUE)

\* lines 150-154
RenderHash(event) ==
    <<[k |-> "page_updated"]>>
    \o (IF Has(event, "content_preview")
        THEN <<[k |-> "preview", text |-> Take(event.content_preview, RenderCap) \o "..."]>>
        ELSE <<>>)
    \o <<[k |-> "page_link", text |-> Get(event, "source_url", "")]>>

\* faulty variant: the ellipsis is appended to the whole description
RenderDescriptionUncut(desc) ==
    IF Len(desc) > RenderCap THEN desc \o "..." ELSE desc

\* lines 161-165
RenderDescription(desc) ==
    IF Len(desc) > RenderCap THEN Take(desc, RenderCap) \o "..." ELSE desc

\* lines 156-167
RenderStructured(i, event) ==
    <<[k |-> "event", n |-> i]>>
    \o (IF Has(event, "title") THEN <<[k |-> "title", text |-> event.title]>> ELSE <<>>)
    \o (IF Has(event, "date") THEN <<[k |-> "date", text |-> event.date]>> ELSE <<>>)
    \o (IF Has(event, "description")
        THEN <<[k |-> "description", text |-> RenderDescription(event.description)]>>
        ELSE <<>>)
    \o (IF Has(event, "link") THEN <<[k |-> "link", text |-> event.link]>> ELSE <<>>)

\* lines 149-169 for events[i..]
RECURSIVE RenderEvents(_, _)
RenderEvents(events, i) ==
    IF i > Len(events) THEN <<>>
    ELSE (IF Has(events[i], "page_hash") THEN RenderHash(events[i])
          ELSE RenderStructured(i, events[i]))
         \o <<[k |-> "rule"]>>
         \o RenderEvents(events, i + 1)

\* lines 143-169
RECURSIVE RenderSites(_)
RenderSites(new) ==
    IF Len(new) = 0 THEN <<>>
    ELSE (IF Len(Head(new).events) = 0 THEN <<>>
          ELSE <<[k |-> "site", name |-> Head(new).name]>> \o RenderEvents(Head(new).events, 1))
         \o RenderSites(Tail(new))

\* lines 172-176
RECURSIVE RenderMonitored(_)
RenderMonitored(siteList) ==
    IF Len(siteList) = 0 THEN <<>>
    ELSE (IF Enabled(Head(siteList))
          THEN <<[k |-> "monitored", name |-> Head(siteList).name, url |-> Head(siteList).url]>>
          ELSE <<>>)
         \o RenderMonitored(Tail(siteList))

\* cfg is what load_config() returns at line 173
format_email_body(new, cfg) ==
    IF \A i \in 1..Len(new) : Len(new[i].events) = 0
    THEN <<[k |-> "no_updates"]>>
    ELSE <<[k |-> "heading"], [k |-> "count", n |-> SumLen(new)], [k |-> "time"]>>
         \o RenderSites(new)
         \o <<[k |-> "monitored_heading"]>>
         \o RenderMonitored(cfg.sites)

-----------------------------------------------------------------------------
(* The inputs of the model: pages, selector configurations, site lists.    *)

Kid(text, href) == [text |-> text, href |-> href]

Concert ==
    [tag |-> "div", cls |-> "event-card", sels |-> {".ev"},
     kids |-> (".t" :> Kid(" Concert ", "")) @@ (".d" :> Kid("2024-05-01", ""))
              @@ (".desc" :> Kid(Rep("d", 350), "")) @@ ("a" :> Kid("more", "/e1"))]

Talk ==
    [tag |-> "article", cls |-> "Post", sels |-> {".ev", "li.x"},
     kids |-> (".t" :> Kid("Talk", "")) @@ ("a" :> Kid("more", "http://b.example/talk"))]

Gala ==
    [tag |-> "div", cls |-> "item", sels |-> {".ev"},
     kids |-> (".t" :> Kid("Gala", "")) @@ (".desc" :> Kid("short", "")) @@ ("a" :> Kid("more", ""))]

\* an element whose title is blank
Blank ==
    [tag |-> "div", cls |-> "entry", sels |-> {".ev"},
     kids |-> (".t" :> Kid("  ", ""))]

\* an element the generic heuristic must not take: the tag is no div or article
Nav ==
    [tag |-> "nav", cls |-> "item", sels |-> {"nav"},
     kids |-> (".t" :> Kid("Home", ""))]

Entry(n) ==
    [tag |-> "div", cls |-> "entry", sels |-> {".ev"},
     kids |-> (".t" :> Kid(Rep("e", n), ""))]

Page(src, text, elems) == [src |-> src, text |-> text, elems |-> elems]

EmptyPage == Page("", "", <<>>)
PlainPage == Page("html", "hello world", <<>>)
PlainPage2 == Page("html", "hello world!", <<>>)
TwoPage == Page("html", "Concert\nTalk\n", <<Concert, Nav, Talk>>)
TwoPageSwapped == Page("html", "Talk\nConcert\n", <<Talk, Concert>>)
ThreePage == Page("html", "Concert\nTalk\nGala\n", <<Concert, Talk, Gala>>)
BlankPage == Page("html", "\n  \n", <<Blank>>)
LongPage == Page("html", Rep("x", 600), <<>>)
NewlinePage == Page("html", Rep("x", 498) \o "\nyz", <<>>)
ManyPage == Page("html", ManyText, [i \in 1..(ContainerCap + 1) |-> Entry(i)])

\* what fetch_page_content may return in a run of main
FetchNone == [ok |-> FALSE, html |-> EmptyPage]
Fetched(page) == [ok |-> TRUE, html |-> page]
SitePages(name) ==
    IF name = "A" THEN {EmptyPage, PlainPage, TwoPage, ThreePage}
    ELSE {PlainPage, PlainPage2}
MainFetches(name) == {FetchNone} \cup {Fetched(p) : p \in SitePages(name)}

\* site_config['selectors']
SelFull ==
    [container |-> <<".ev">>, title |-> <<".t">>, date |-> <<".d">>,
     description |-> <<".desc">>, link |-> <<"a">>]
SelGeneric == [title |-> <<"h9", ".t">>, link |-> <<"a">>]
SelTwice == [container |-> <<".ev", "li.x">>, title |-> <<".t">>]
SelNoTitle == [container |-> <<".ev">>, date |-> <<".d">>]

SiteNames == {"A", "B", "C"}

SiteA == [name |-> "A", url |-> "http://a.example", enabled |-> TRUE, selectors |-> SelFull]
SiteB == [name |-> "B", url |-> "http://b.example"]
SiteC == [name |-> "C", url |-> "http://c.example", enabled |-> FALSE, selectors |-> SelGeneric]

\* sites_config.json: absent, or a list with an enabled site, a disabled one and
\* one without the enabled key
Configs ==
    {[exists |-> FALSE, sites |-> <<>>],
     [exists |-> TRUE, sites |-> <<SiteA, SiteC, SiteB>>]}

-----------------------------------------------------------------------------
(* main.                                                                   *)

NoCall == [fn |-> "none"]
NoResult == [done |-> FALSE]

Idle ==
    /\ report = [exists |-> FALSE, body |-> <<>>]
    /\ stdout = <<>>
    /\ writes = <<>>
    /\ pc = "idle"
    /\ idx = 1
    /\ sites = <<>>
    /\ last_events = <<>>
    /\ current_all_events = <<>>
    /\ all_new_events = <<>>
    /\ run = 0
    /\ fetched = <<>>
    /\ prev_fetched = <<>>
    /\ tracked = [s \in SiteNames |-> {}]

\* last_events.json before the first run: absent, or left by runs under an earlier
\* configuration (another page of B, and a site Z that is no longer configured)
StaleSnapshot ==
    [exists |-> TRUE,
     data |-> <<[name |-> "Z", events |-> <<[title |-> "Old", source |-> "Z",
                                              source_url |-> "http://z.example"]>>],
                [name |-> "B", events |-> <<[page_hash |-> "fc3ff98e8c6a0d30",
                                              content_preview |-> "hello world!",
                                              source |-> "B",
                                              source_url |-> "http://b.example"]>>]>>]

Init ==
    /\ config \in Configs
    /\ file \in {[exists |-> FALSE, data |-> <<>>], StaleSnapshot}
    /\ Idle
    /\ call = NoCall
    /\ result = NoResult

\* the records of a finished run that later runs must not report again
Track(s) ==
    IF s \in Names(current_all_events)
    THEN (tracked[s] \cap Range(OdGet(current_all_events, s, <<>>)))
         \cup Range(OdGet(all_new_events, s, <<>>))
    ELSE tracked[s]

CanStart == pc \in {"idle", "done", "crashed"} /\ run < MaxRuns

\* line 186 raises: sites_config.json is missing
ConfigError ==
    /\ CanStart
    /\ ~config.exists
    /\ pc' = "crashed"
    /\ run' = run + 1
    /\ stdout' = <<[k |-> "banner"]>>
    /\ writes' = <<>>
    /\ UNCHANGED <<config, file, report, idx, sites, last_events, current_all_events,
                   all_new_events, fetched, prev_fetched, tracked, call, result>>

\* lines 181-196
Start ==
    /\ CanStart
    /\ config.exists
    /\ sites' = SelectSeq(config.sites, Enabled)
    /\ last_events' = load_last_events(file)
    /\ current_all_events' = <<>>
    /\ all_new_events' = <<>>
    /\ idx' = 1
    /\ pc' = "loop"
    /\ run' = run + 1
    /\ stdout' = <<[k |-> "banner"], [k |-> "will_check", n |-> Len(sites')]>>
    /\ writes' = <<>>
    /\ prev_fetched' = fetched
    /\ fetched' = <<>>
    /\ tracked' = [s \in SiteNames |-> Track(s)]
    /\ UNCHANGED <<config, file, report, call, result>>

InLoop == pc = "loop" /\ idx <= Len(sites)

\* faulty variant: a failed fetch leaves the loop (break for continue)
SkipSiteAborts ==
    /\ InLoop
    /\ \E fetch \in MainFetches(sites[idx].name) :
         /\ ~fetch_site_events(sites[idx], fetch).ok
         /\ fetched' = Append(fetched, [name |-> sites[idx].name, fetch |-> fetch])
    /\ stdout' = stdout \o <<[k |-> "checking", name |-> sites[idx].name],
                             [k |-> "skip", name |-> sites[idx].name]>>
    /\ idx' = Len(sites) + 1
    /\ UNCHANGED <<config, file, report, writes, pc, sites, last_events,
                   current_all_events, all_new_events, run, prev_fetched, tracked,
                   call, result>>

\* lines 198-204: the fetch fails and the site is skipped
SkipSite ==
    /\ InLoop
    /\ \E fetch \in MainFetches(sites[idx].name) :
         /\ ~fetch_site_events(sites[idx], fetch).ok
         /\ fetched' = Append(fetched, [name |-> sites[idx].name, fetch |-> fetch])
    /\ stdout' = stdout \o <<[k |-> "checking", name |-> sites[idx].name],
                             [k |-> "skip", name |-> sites[idx].name]>>
    /\ idx' = idx + 1
    /\ UNCHANGED <<config, file, report, writes, pc, sites, last_events,
                   current_all_events, all_new_events, run, prev_fetched, tracked,
                   call, result>>

\* lines 198-219: the fetch succeeds
ProcessSite ==
    /\ InLoop
    /\ \E fetch \in MainFetches(sites[idx].name) :
         LET site == sites[idx]
             got == fetch_site_events(site, fetch)
         IN  /\ got.ok
             /\ fetched' = Append(fetched, [name |-> site.name, fetch |-> fetch])
             /\ current_all_events' = OdSet(current_all_events, site.name, got.events)
             /\ \E new_events \in find_new_events(got.events, last_events, site.name) :
                  /\ all_new_events' =
                       IF Len(new_events) > 0
                       THEN OdSet(all_new_events, site.name, new_events)
                       ELSE all_new_events
                  /\ stdout' = stdout \o
                       <<[k |-> "checking", name |-> site.name],
                         [k |-> "found", n |-> Len(got.events)],
                         [k |-> "new", name |-> site.name, n |-> Len(new_events)]>>
    /\ idx' = idx + 1
    /\ UNCHANGED <<config, file, report, writes, pc, sites, last_events, run,
                   prev_fetched, tracked, call, result>>

LoopDone == pc = "loop" /\ idx > Len(sites)

SetOutput(name, value) == [k |-> "set-output", name |-> name, value |-> value]

\* lines 222-247
ReportUpdates ==
    /\ LoopDone
    /\ SumLen(all_new_events) > 0
    /\ report' = [exists |-> TRUE, body |-> format_email_body(all_new_events, config)]
    /\ stdout' = stdout \o <<[k |-> "report_generated"],
                             SetOutput("has_updates", "true"),
                             SetOutput("update_count", SumLen(all_new_events))>>
    /\ file' = save_events(current_all_events)
    /\ writes' = writes \o <<"email_content.txt", "last_events.json">>
    /\ pc' = "done"
    /\ UNCHANGED <<config, idx, sites, last_events, current_all_events, all_new_events,
                   run, fetched, prev_fetched, tracked, call, result>>

\* lines 222, 248-255
NoUpdates ==
    /\ LoopDone
    /\ SumLen(all_new_events) = 0
    /\ stdout' = stdout \o <<SetOutput("has_updates", "false"),
                             SetOutput("update_count", 0)>>
    /\ IF Len(current_all_events) > 0
       THEN /\ file' = save_events(current_all_events)
            /\ writes' = Append(writes, "last_events.json")
       ELSE UNCHANGED <<file, writes>>
    /\ pc' = "done"
    /\ UNCHANGED <<config, report, idx, sites, last_events, current_all_events,
                   all_new_events, run, fetched, prev_fetched, tracked, call, result>>

Next == ConfigError \/ Start \/ SkipSite \/ ProcessSite \/ ReportUpdates \/ NoUpdates

Spec == Init /\ [][Next]_vars

-----------------------------------------------------------------------------
(* Direct calls of extract_events_generic, find_new_events and             *)
(* format_email_body, on arguments drawn from bounded sets.                *)

AllPages ==
    {EmptyPage, PlainPage, PlainPage2, TwoPage, TwoPageSwapped, ThreePage, BlankPage,
     LongPage, NewlinePage, ManyPage}

AllSelectors == {EmptyDict, SelFull, SelGeneric, SelTwice, SelNoTitle}

ExtractCalls ==
    {[fn |-> "extract_events_generic", html |-> p, url |-> "http://a.example", selectors |-> sel] :
        p \in AllPages, sel \in AllSelectors}

\* records for find_new_events: RecConcert2 and RecConcert3 differ from RecConcert in
\* one field each, RecTalk and RecGala in the title
RecConcert == [title |-> "Concert", date |-> "2024-05-01", source |-> "A"]
RecConcert2 == [title |-> "Concert", date |-> "2024-05-02", source |-> "A"]
RecConcert3 == [title |-> "Concert", date |-> "2024-05-01", source |-> "A", link |-> "http://a.example/e1"]
RecTalk == [title |-> "Talk", date |-> "2024-05-01", source |-> "A"]
RecGala == [title |-> "Gala", date |-> "2024-05-01", source |-> "A"]

FindRecs == {RecConcert, RecConcert2, RecConcert3, RecTalk, RecGala}

SeqsUpTo(S, n) == UNION {[1..m -> S] : m \in 0..n}

MaxCurrent == 3
MaxLast == 2

FindCalls ==
    {[fn |-> "find_new_events", current_events |-> c, last |-> l, site_name |-> "A"] :
        c \in SeqsUpTo(FindRecs, MaxCurrent),
        l \in {<<>>, <<[name |-> "B", events |-> <<RecConcert>>]>>}
              \cup {<<[name |-> "A", events |-> e]>> : e \in SeqsUpTo(FindRecs, MaxLast)}}

\* events for format_email_body: descriptions and previews around and beyond the caps
Described(n) == [title |-> "Concert", description |-> Rep("d", n), source |-> "A"]
Previewed(n) ==
    [page_hash |-> "2bfac1bb871236a2", content_preview |-> Rep("x", n), source |-> "A",
     source_url |-> "http://a.example"]

FormatRecs ==
    {Described(n) : n \in {0, 199, 200, 201, 300, 600}}
    \cup {Previewed(n) : n \in {0, 200, 201, 500, 600}}
    \cup {[page_hash |-> "5eb63bbbe01eeed0"], RecTalk}

MaxRendered == 2

FormatCalls ==
    {[fn |-> "format_email_body", all_new_events |-> d] :
        d \in {<<>>}
              \cup {<<[name |-> "A", events |-> e]>> : e \in SeqsUpTo(FormatRecs, MaxRendered)}
              \cup {<<[name |-> "B", events |-> <<>>], [name |-> "A", events |-> e]>> :
                       e \in SeqsUpTo(FormatRecs, 1)}}

InitCalls ==
    /\ config \in {c \in Configs : c.exists}
    /\ file = [exists |-> FALSE, data |-> <<>>]
    /\ Idle
    /\ call \in ExtractCalls \cup FindCalls \cup FormatCalls
    /\ result = NoResult

Return(value) ==
    /\ result' = [done |-> TRUE, value |-> value]
    /\ UNCHANGED <<config, file, report, stdout, pc, idx, sites, last_events,
                   current_all_events, all_new_events, run, writes, fetched,
                   prev_fetched, tracked, call>>

CallExtract ==
    /\ call.fn = "extract_events_generic"
    /\ ~result.done
    /\ Return(extract_events_generic(call.html, call.url, call.selectors))

CallFind ==
    /\ call.fn = "find_new_events"
    /\ ~result.done
    /\ Return(find_new_events(call.current_events, call.last, call.site_name))

CallFormat ==
    /\ call.fn = "format_email_body"
    /\ ~result.done
    /\ Return(format_email_body(call.all_new_events, config))

NextCalls == CallExtract \/ CallFind \/ CallFormat

SpecCalls == InitCalls /\ [][NextCalls]_vars

-----------------------------------------------------------------------------
(* Properties.                                                             *)

Done == pc = "done"

\* what fetch_site_events made of a fetch: a failure, or the page
Outcome(entry) ==
    IF ~entry.fetch.ok \/ Falsy(entry.fetch.html)
    THEN [name |-> entry.name, fetch |-> FetchNone]
    ELSE entry
Outcomes(log) == [i \in 1..Len(log) |-> Outcome(log[i])]

FailedSites == {fetched[i].name : i \in {j \in 1..Len(fetched) : ~Outcome(fetched[j]).fetch.ok}}
FetchedNames == [i \in 1..Len(fetched) |-> fetched[i].name]
Printed(entry) == \E i \in 1..Len(stdout) : stdout[i] = entry
\* the sites configured with enabled: false
DisabledNames ==
    {config.sites[i].name :
       i \in {j \in 1..Len(config.sites) :
                Has(config.sites[j], "enabled") /\ config.sites[j].enabled = FALSE}}

\* C1: after a run, every site whose fetch failed in the run has in last_events.json
\* exactly the snapshot it had when the run loaded the file (none if it had none).
C1_FailedSnapshotRetained ==
    Done =>
      \A s \in FailedSites :
        /\ (s \in Names(load_last_events(file))) = (s \in Names(last_events))
        /\ OdGet(load_last_events(file), s, <<>>) = OdGet(last_events, s, <<>>)

\* C2: a run whose fetch outcomes and pages equal those of the run before it finds
\* no new event and prints has_updates=false and update_count 0.
C2_Idempotent ==
    (Done /\ run >= 2 /\ Outcomes(fetched) = Outcomes(prev_fetched)) =>
      /\ all_new_events = <<>>
      /\ Printed(SetOutput("has_updates", "false"))
      /\ Printed(SetOutput("update_count", 0))
      /\ ~Printed(SetOutput("has_updates", "true"))

C2_Witness ==
    /\ Done /\ run = 2 /\ Outcomes(fetched) = Outcomes(prev_fetched)
    /\ Names(current_all_events) = {"A", "B"}
    /\ Len(OdGet(current_all_events, "A", <<>>)) = 3

\* the 'two stored, the same two plus one with another title' case of C3
TwoPlusOne(c) ==
    /\ Len(c.current_events) = 3
    /\ Len(OdGet(c.last, c.site_name, <<>>)) = 2
    /\ Cardinality(Range(OdGet(c.last, c.site_name, <<>>))) = 2
    /\ Range(SubSeq(c.current_events, 1, 2)) = Range(OdGet(c.last, c.site_name, <<>>))
    /\ \A e \in Range(OdGet(c.last, c.site_name, <<>>)) : e.title # c.current_events[3].title

\* C3: every list find_new_events can return holds exactly the current records that
\* equal no stored record of the site, field for field; with two stored records and
\* the same two plus one of another title, it is that one record alone.
C3_SetDifference ==
    (call.fn = "find_new_events" /\ result.done) =>
      \A new_events \in result.value :
        /\ Range(new_events) =
             {e \in Range(call.current_events) :
                \A old \in Range(OdGet(call.last, call.site_name, <<>>)) : old # e}
        /\ TwoPlusOne(call) => new_events = <<call.current_events[3]>>

C3_Witness ==
    /\ call.fn = "find_new_events" /\ result.done
    /\ TwoPlusOne(call)
    /\ call.current_events[1] = call.last[1].events[2]
    /\ result.value = {<<RecGala>>}

\* C4: extract_events_generic never returns an empty list: it returns either one
\* record with a non-empty page_hash, or structured events only.
C4_HashFallback ==
    (call.fn = "extract_events_generic" /\ result.done) =>
      \/ /\ Len(result.value) = 1
         /\ Has(result.value[1], "page_hash")
         /\ result.value[1].page_hash # ""
      \/ /\ Len(result.value) >= 1
         /\ \A e \in Range(result.value) : HasTitle(e) /\ ~Has(e, "page_hash")

\* C5: every run that loaded the configuration has written email_content.txt when it
\* ends, with the fixed 'no updates' message if it found no new event.
C5_ReportAlwaysWritten ==
    Done =>
      /\ "email_content.txt" \in Range(writes)
      /\ SumLen(all_new_events) = 0 => report.body = <<[k |-> "no_updates"]>>

\* C6: a site with enabled:false is never fetched, never has new events and its name
\* is in no site section and no monitored-sites line of the report; when a run ends,
\* a site without the enabled key has been fetched, and is listed in a report the run
\* wrote.
C6_DisabledSitesIgnored ==
    /\ \A s \in DisabledNames :
         /\ s \notin Range(FetchedNames)
         /\ \A i \in 1..Len(stdout) : stdout[i].k = "checking" => stdout[i].name # s
         /\ s \notin Names(all_new_events)
         /\ s \notin Names(current_all_events)
         /\ \A i \in 1..Len(report.body) :
              report.body[i].k \in {"site", "monitored"} => report.body[i].name # s
    /\ Done =>
         \A i \in 1..Len(config.sites) :
           ~Has(config.sites[i], "enabled") =>
             /\ config.sites[i].name \in Range(FetchedNames)
             /\ "email_content.txt" \in Range(writes) =>
                  \E j \in 1..Len(report.body) :
                    /\ report.body[j].k = "monitored"
                    /\ report.body[j].name = config.sites[i].name

C6_Witness ==
    /\ Done
    /\ "email_content.txt" \in Range(writes)
    /\ DisabledNames = {"C"}
    /\ Range(FetchedNames) = {"A", "B"}
    /\ Names(all_new_events) = {"A", "B"}

EnabledNames ==
    LET on == SelectSeq(config.sites, LAMBDA s : Get(s, "enabled", TRUE))
    IN  [i \in 1..Len(on) |-> on[i].name]

\* C7: a failed fetch does not end the loop: the sites fetched so far are the first
\* idx-1 enabled sites, in order, the loop goes on or the result is computed, a run
\* that ends has fetched every enabled site, and a failed site has no entry among the
\* new events, so that update_count counts the other sites' new events only.
C7_PartialFailureTolerance ==
    (pc \in {"loop", "done"}) =>
      /\ FetchedNames = SubSeq(EnabledNames, 1, idx - 1)
      /\ Done => FetchedNames = EnabledNames
      /\ pc = "loop" => ENABLED (SkipSite \/ ProcessSite \/ ReportUpdates \/ NoUpdates)
      /\ \A s \in FailedSites :
           s \notin Names(all_new_events) /\ s \notin Names(current_all_events)
      /\ Done => Printed(SetOutput("update_count", SumLen(all_new_events)))

C7_Witness ==
    /\ Done
    /\ FailedSites = {"A"}
    /\ FetchedNames = <<"A", "B">>
    /\ Names(all_new_events) = {"B"}
    /\ Printed(SetOutput("update_count", 1))

\* C8: a site fetched successfully that has no entry in the loaded snapshot has all
\* its extracted records reported as new, at least one, and the run prints
\* has_updates=true.
C8_FirstObservation ==
    \A s \in Names(current_all_events) \ Names(last_events) :
      /\ Range(OdGet(all_new_events, s, <<>>)) = Range(OdGet(current_all_events, s, <<>>))
      /\ OdGet(all_new_events, s, <<>>) # <<>>
      /\ Done => Printed(SetOutput("has_updates", "true"))

C8_Witness ==
    /\ Done
    /\ "B" \in Names(current_all_events) \ Names(last_events)
    /\ "A" \in Names(last_events)
    /\ Has(OdGet(all_new_events, "B", <<>>)[1], "page_hash")

\* C9: in the body format_email_body returns, a description is at most 300 characters
\* long and a content preview at most 500, the appended ellipsis included.
C9_TruncationBounds ==
    (call.fn = "format_email_body" /\ result.done) =>
      \A i \in 1..Len(result.value) :
        /\ result.value[i].k = "description" => Len(result.value[i].text) <= DescriptionCap
        /\ result.value[i].k = "preview" => Len(result.value[i].text) <= PreviewCap

C9_Witness ==
    /\ call.fn = "format_email_body" /\ result.done
    /\ call.all_new_events = <<[name |-> "A", events |-> <<Described(600), Previewed(600)>>]>>
    /\ \E i \in 1..Len(result.value) :
         result.value[i].k = "description" /\ Len(result.value[i].text) = RenderCap + 3
    /\ \E i \in 1..Len(result.value) :
         result.value[i].k = "preview" /\ Len(result.value[i].text) = RenderCap + 3

\* C10: a record reported as new in an earlier run and present in every successful
\* fetch of its site since then is not among the new events of the run.
C10_NeverReportedTwice ==
    \A s \in SiteNames : Range(OdGet(all_new_events, s, <<>>)) \cap tracked[s] = {}

====
